---- MODULE Spec2Model ----
(***************************************************************************)
(* Model of the sentinel sentiment pipeline: SentimentAnalyzer             *)
(* (src/analyzer.py) and the FastAPI endpoints that call it (src/main.py). *)
(*                                                                         *)
(* Strings are tuples of one-character strings.  Sentiment scores are      *)
(* fixed-point integers in units of 1/Unit (Unit = 1.0), VADER compounds   *)
(* being multiples of 10 (four decimals).  Proportions and means are exact *)
(* rationals [num, den]; IEEE-754 rounding of the Python floats is outside *)
(* the model.                                                              *)
(***************************************************************************)
EXTENDS Integers, Sequences, FiniteSets, TLC

VARIABLES
    pc,                \* position of the modelled call
    use_transformers,  \* SentimentAnalyzer.use_transformers
    raw, once, twice,  \* preprocess_text: input, one pass, two passes
    at_text, at_backend, at_out,   \* analyze_text: argument, backend behaviour, outcome
    et_texts, et_top_n, et_out,   \* extract_topics: arguments and outcome
    endpoint, env, response   \* API request: route, collaborators' behaviour, reply

vars == <<pc, use_transformers, raw, once, twice, at_text, at_backend, at_out,
          et_texts, et_top_n, et_out, endpoint, env, response>>

(***************************************************************************)
(* Bounds                                                                  *)
(***************************************************************************)
MaxTextLen == 5     \* longest raw text given to preprocess_text
MaxTexts == 2       \* longest text list given to extract_topics
MaxTopN == 2        \* largest top_n given to extract_topics
MaxChunks == 2      \* most noun chunks the extractor yields
MaxEnts == 1        \* most named entities the extractor yields
MaxPosts == 4       \* largest batch of posts the scraper returns
MaxComments == 3    \* largest batch of comments the scraper returns

(***************************************************************************)
(* Python values                                                           *)
(***************************************************************************)
\* A text argument: a str (with the compound the VADER lexicon gives it),
\* None, or an int standing for any non-string value.
Str(cs, v) == [type |-> "str", chars |-> cs, val |-> 0, vader |-> v]
NoneVal == [type |-> "NoneType", chars |-> <<>>, val |-> 0, vader |-> 0]
IntVal(n) == [type |-> "int", chars |-> <<>>, val |-> n, vader |-> 0]
EmptyStr == Str(<<>>, 0)

\* Python truthiness: bool(text)
Truthy(text) ==
    CASE text.type = "NoneType" -> FALSE
      [] text.type = "int" -> text.val # 0
      [] OTHER -> text.chars # <<>>

isinstance_str(text) == text.type = "str"

IsSpace(c) == c = " "
IsWordChar(c) == c \notin {" ", ".", ":", "/"}

\* str.lower() on one character
LowerChar(c) ==
    CASE c = "T" -> "t"
      [] c = "X" -> "x"
      [] OTHER -> c

lower(s) == [k \in 1..Len(s) |-> LowerChar(s[k])]

\* str.strip(): drop leading and trailing whitespace
RECURSIVE lstrip(_)
lstrip(s) == IF s # <<>> /\ IsSpace(Head(s)) THEN lstrip(Tail(s)) ELSE s

RECURSIVE rstrip(_)
rstrip(s) ==
    IF s # <<>> /\ IsSpace(s[Len(s)]) THEN rstrip(SubSeq(s, 1, Len(s) - 1)) ELSE s

strip(s) == rstrip(lstrip(s))

\* str.split(): the maximal runs of non-whitespace characters
RECURSIVE split(_)
split(s) ==
    LET t == lstrip(s)
        RECURSIVE run(_)
        run(u) == IF u = <<>> \/ IsSpace(Head(u)) THEN 0 ELSE 1 + run(Tail(u))
    IN  IF t = <<>> THEN <<>>
        ELSE <<SubSeq(t, 1, run(t))>> \o split(SubSeq(t, run(t) + 1, Len(t)))

\* " ".join(parts)
RECURSIVE join(_)
join(parts) ==
    IF parts = <<>> THEN <<>>
    ELSE IF Len(parts) = 1 THEN parts[1]
    ELSE parts[1] \o <<" ">> \o join(Tail(parts))

(***************************************************************************)
(* preprocess_text                                                         *)
(***************************************************************************)
\* Length of the match of the regex http\S+ at the start of s (0: no match)
RECURSIVE NonSpaceRun(_)
NonSpaceRun(s) == IF s = <<>> \/ IsSpace(Head(s)) THEN 0 ELSE 1 + NonSpaceRun(Tail(s))

UrlMatchLen(s) ==
    IF Len(s) >= 5 /\ SubSeq(s, 1, 4) = <<"h", "t", "t", "p">> /\ ~IsSpace(s[5])
    THEN 4 + NonSpaceRun(SubSeq(s, 5, Len(s)))
    ELSE 0

\* re.sub(r'http\S+', '', text): leftmost greedy matches removed
RECURSIVE remove_urls(_)
remove_urls(s) ==
    IF s = <<>> THEN <<>>
    ELSE IF UrlMatchLen(s) > 0 THEN remove_urls(SubSeq(s, UrlMatchLen(s) + 1, Len(s)))
    ELSE <<Head(s)>> \o remove_urls(Tail(s))

\* re.sub(r'[^\w\s]', '', text)
KeepChar(c) == IsWordChar(c) \/ IsSpace(c)
remove_special(s) == SelectSeq(s, KeepChar)

preprocess_text(text) ==
    IF ~Truthy(text) \/ ~isinstance_str(text) THEN <<>>
    ELSE lower(remove_special(remove_urls(text.chars)))

(***************************************************************************)
(* Specification of the normalizer: a raw text normalized once, then the   *)
(* result normalized again.                                                *)
(***************************************************************************)
Alphabet == {"h", "t", "p", "T", ".", " "}

RECURSIVE StringsUpTo(_)
StringsUpTo(n) ==
    IF n = 0 THEN {<<>>}
    ELSE LET shorter == StringsUpTo(n - 1)
         IN  shorter \cup {Append(s, c) : s \in {x \in shorter : Len(x) = n - 1}, c \in Alphabet}

RawTexts == {Str(s, 0) : s \in StringsUpTo(MaxTextLen)} \cup {NoneVal, IntVal(0), IntVal(5)}

NoCall == [kind |-> "none"]

IdleNorm == raw = NoneVal /\ once = <<>> /\ twice = <<>>
IdleText == at_text = NoneVal /\ at_backend = "ok" /\ at_out = NoCall
IdleTopics == et_texts = <<>> /\ et_top_n = 0 /\ et_out = NoCall
IdleApi == endpoint = "none" /\ env = NoCall /\ response = NoCall

InitNorm ==
    /\ pc = "raw"
    /\ use_transformers = FALSE
    /\ raw \in RawTexts
    /\ once = <<>>
    /\ twice = <<>>
    /\ IdleText /\ IdleTopics /\ IdleApi

NormalizeOnce ==
    /\ pc = "raw"
    /\ once' = preprocess_text(raw)
    /\ pc' = "once"
    /\ UNCHANGED <<use_transformers, raw, twice, at_text, at_backend, at_out,
                   et_texts, et_top_n, et_out, endpoint, env, response>>

NormalizeTwice ==
    /\ pc = "once"
    /\ twice' = preprocess_text(Str(once, 0))
    /\ pc' = "twice"
    /\ UNCHANGED <<use_transformers, raw, once, at_text, at_backend, at_out,
                   et_texts, et_top_n, et_out, endpoint, env, response>>

NextNorm == NormalizeOnce \/ NormalizeTwice

SpecNorm == InitNorm /\ [][NextNorm]_vars

\* C7: normalizing an already-normalized text gives the same string as
\* normalizing the raw text once.
C7_Idempotent == pc = "twice" => twice = once

(***************************************************************************)
(* analyze_text                                                            *)
(***************************************************************************)
Unit == 100000          \* the score 1.0
MaxBackendLen == 512    \* text[:512]

\* The dict literal {"compound": 0, "pos": 0, "neu": 0, "neg": 0}; extra holds
\* the optional keys as (key, value) pairs.
ZeroScore == [compound |-> 0, pos |-> 0, neu |-> 0, neg |-> 0, extra |-> {}]

\* self.sid.polarity_scores(text): the lexicon scorer, an external pure
\* function of the text; the text carries the compound it is given.
polarity_scores(text) ==
    [compound |-> text.vader,
     pos |-> IF text.vader > 0 THEN text.vader ELSE 0,
     neu |-> IF text.vader >= 0 THEN Unit - text.vader ELSE Unit + text.vader,
     neg |-> IF text.vader < 0 THEN 0 - text.vader ELSE 0,
     extra |-> {}]

\* What self.transformer_model(text[:512])[0] does on one call:
\*   "ok"        returns [{'label': ..., 'score': ...}]
\*   "raise"     the call raises
\*   "empty"     returns [], so [0] raises IndexError
\*   "no_score"  returns a dict without 'score': 'label' is stored, then KeyError
Backends == {"ok", "raise", "empty", "no_score"}

BackendExtra(backend) ==
    CASE backend = "ok" ->
           {<<"transformer_label", "POSITIVE">>, <<"transformer_score", "0.99">>}
      [] backend = "no_score" -> {<<"transformer_label", "POSITIVE">>}
      [] OTHER -> {}

BackendError(backend) ==
    CASE backend = "raise" -> "RuntimeError: transformer model failed"
      [] backend = "empty" -> "IndexError: list index out of range"
      [] backend = "no_score" -> "KeyError: 'score'"
      [] OTHER -> ""

Truncate(s) == SubSeq(s, 1, IF Len(s) < MaxBackendLen THEN Len(s) ELSE MaxBackendLen)

Return(v, sid, tf) ==
    [kind |-> "return", value |-> v, error |-> "", sid_calls |-> sid, tf_calls |-> tf]
Raise(e, sid, tf) ==
    [kind |-> "raise", value |-> ZeroScore, error |-> e, sid_calls |-> sid, tf_calls |-> tf]

\* The same without the try/except around the backend call.
analyze_text_nocatch(text, use_tf, backend) ==
    IF ~Truthy(text) THEN Return(ZeroScore, <<>>, <<>>)
    ELSE IF ~isinstance_str(text)
    THEN Raise("AttributeError: 'int' object has no attribute 'strip'", <<>>, <<>>)
    ELSE IF strip(text.chars) = <<>> THEN Return(ZeroScore, <<>>, <<>>)
    ELSE IF ~use_tf THEN Return(polarity_scores(text), <<text.chars>>, <<>>)
    ELSE IF backend # "ok"
    THEN Raise(BackendError(backend), <<text.chars>>, <<Truncate(text.chars)>>)
    ELSE Return([polarity_scores(text) EXCEPT !.extra = BackendExtra(backend)],
                <<text.chars>>, <<Truncate(text.chars)>>)

\* analyze_text(text) under use_transformers = use_tf, the backend behaving as
\* `backend` on this call.  sid_calls / tf_calls log the arguments passed to
\* the lexicon scorer and to the backend.
analyze_text(text, use_tf, backend) ==
    IF ~Truthy(text) THEN Return(ZeroScore, <<>>, <<>>)
    ELSE IF ~isinstance_str(text)
    THEN Raise("AttributeError: 'int' object has no attribute 'strip'", <<>>, <<>>)
    ELSE IF strip(text.chars) = <<>> THEN Return(ZeroScore, <<>>, <<>>)
    ELSE IF ~use_tf THEN Return(polarity_scores(text), <<text.chars>>, <<>>)
    ELSE Return([polarity_scores(text) EXCEPT !.extra = BackendExtra(backend)],
                <<text.chars>>, <<Truncate(text.chars)>>)

(***************************************************************************)
(* Specification of the item scorer: one call of analyze_text.             *)
(***************************************************************************)
Compounds == {0 - Unit, -57500, -17500, -5000, 0, 5000, 7000, 17500, 57500, Unit}

ShortStrings == {<<>>, <<" ">>, <<" ", " ">>, <<"x">>, <<" ", "x">>, <<"x", " ">>, <<"x", "x">>}

ScoredTexts ==
    {Str(s, v) : s \in ShortStrings, v \in Compounds} \cup {NoneVal, IntVal(0), IntVal(5)}

InitText ==
    /\ pc = "call"
    /\ use_transformers \in BOOLEAN
    /\ at_text \in ScoredTexts
    /\ at_backend \in Backends
    /\ at_out = NoCall
    /\ IdleNorm /\ IdleTopics /\ IdleApi

AnalyzeText ==
    /\ pc = "call"
    /\ at_out' = analyze_text(at_text, use_transformers, at_backend)
    /\ pc' = "scored"
    /\ UNCHANGED <<use_transformers, raw, once, twice, at_text, at_backend,
                   et_texts, et_top_n, et_out, endpoint, env, response>>

NextText == AnalyzeText

SpecText == InitText /\ [][NextText]_vars

\* The inputs C5 is about: empty, whitespace-only, or not a text string.
EmptyOrInvalid(text) == ~isinstance_str(text) \/ strip(text.chars) = <<>>

\* C5: for an empty, whitespace-only or non-string input analyze_text returns
\* the zero score with no optional fields, does not raise, and calls neither
\* the lexicon scorer nor the secondary backend.
C5_ZeroForInvalid ==
    (pc = "scored" /\ EmptyOrInvalid(at_text)) =>
        /\ at_out.kind = "return"
        /\ at_out.value = ZeroScore
        /\ at_out.sid_calls = <<>>
        /\ at_out.tf_calls = <<>>

\* C6: with the secondary backend enabled and failing on a non-empty text,
\* analyze_text does not raise and returns the lexicon score of that text.
C6_BackendFailureAbsorbed ==
    (pc = "scored" /\ use_transformers /\ at_backend # "ok"
        /\ isinstance_str(at_text) /\ strip(at_text.chars) # <<>>) =>
        /\ at_out.kind = "return"
        /\ at_out.value.compound = polarity_scores(at_text).compound
        /\ at_out.value.pos = polarity_scores(at_text).pos
        /\ at_out.value.neu = polarity_scores(at_text).neu
        /\ at_out.value.neg = polarity_scores(at_text).neg
        /\ at_out.sid_calls = <<at_text.chars>>

C6_Witness ==
    /\ pc = "scored" /\ use_transformers /\ at_backend = "raise"
    /\ at_text = Str(<<"x", "x">>, 57500)
    /\ at_out.kind = "return"
    /\ at_out.value.compound = 57500
    /\ at_out.tf_calls = <<<<"x", "x">>>>

(***************************************************************************)
(* extract_topics                                                          *)
(***************************************************************************)
DefaultTopN == 10   \* top_n=10
MaxChunkWords == 3  \* len(chunk.text.split()) <= 3

\* self.stopwords: the words of the NLTK English list that the modelled
\* alphabet can spell
stopwords == {<<"a">>, <<"t">>, <<"t", "h", "e">>}

\* all_text = " ".join([self.preprocess_text(text) for text in texts])
all_text(texts) == join([k \in 1..Len(texts) |-> preprocess_text(texts[k])])

\* The text spans the extractor can yield from a corpus: runs of one to four
\* consecutive words.
Spans(corpus) ==
    LET words == split(corpus)
        ends == {p \in (1..Len(words)) \X (1..Len(words)) :
                    p[2] >= p[1] /\ p[2] - p[1] <= MaxChunkWords}
    IN  {join(SubSeq(words, p[1], p[2])) : p \in ends}

RECURSIVE SeqsUpTo(_, _)
SeqsUpTo(S, n) ==
    IF n = 0 THEN {<<>>}
    ELSE LET shorter == SeqsUpTo(S, n - 1)
         IN  shorter \cup {Append(q, x) : q \in {y \in shorter : Len(y) = n - 1}, x \in S}

\* self.nlp(all_text): the documents the extractor may return for a corpus,
\* as the texts of doc.noun_chunks and of doc.ents
Docs(corpus) ==
    [noun_chunks : SeqsUpTo(Spans(corpus), MaxChunks), ents : SeqsUpTo(Spans(corpus), MaxEnts)]

KeepChunk(chunk) == lower(chunk) \notin stopwords /\ Len(split(chunk)) <= MaxChunkWords
KeepEnt(ent) == lower(ent) \notin stopwords

\* The list `topics` built by the two loops
TopicList(doc) == SelectSeq(doc.noun_chunks, KeepChunk) \o SelectSeq(doc.ents, KeepEnt)

Occurrences(seq, x) == Cardinality({k \in 1..Len(seq) : seq[k] = x})

\* Counter(topics): one entry per distinct topic, in first-encountered order
RECURSIVE Counter(_)
Counter(topics) ==
    IF topics = <<>> THEN <<>>
    ELSE LET x == Head(topics)
             NotX(y) == y # x
         IN  <<[topic |-> x, count |-> Occurrences(topics, x)]>>
                 \o Counter(SelectSeq(Tail(topics), NotX))

\* Index of the first entry with the largest count
FirstMax(entries) ==
    CHOOSE k \in 1..Len(entries) :
        /\ \A j \in 1..Len(entries) : entries[j].count <= entries[k].count
        /\ \A j \in 1..(k - 1) : entries[j].count < entries[k].count

\* The same, with the smallest count first
RECURSIVE most_common_ascending(_, _)
most_common_ascending(entries, n) ==
    IF n <= 0 \/ entries = <<>> THEN <<>>
    ELSE LET k == CHOOSE i \in 1..Len(entries) :
                      \A j \in 1..Len(entries) : entries[i].count <= entries[j].count
         IN  <<entries[k]>> \o
             most_common_ascending(SubSeq(entries, 1, k - 1) \o SubSeq(entries, k + 1, Len(entries)),
                                   n - 1)

\* Counter.most_common(n): sorted(entries, key=count, reverse=True)[:n], a
\* stable sort, so equal counts stay in first-encountered order
RECURSIVE most_common(_, _)
most_common(entries, n) ==
    IF n <= 0 \/ entries = <<>> THEN <<>>
    ELSE LET k == FirstMax(entries)
         IN  <<entries[k]>> \o
             most_common(SubSeq(entries, 1, k - 1) \o SubSeq(entries, k + 1, Len(entries)),
                         n - 1)

\* extract_topics(texts, top_n), the extractor returning doc for the corpus
extract_topics(texts, top_n, doc) == most_common(Counter(TopicList(doc)), top_n)

(***************************************************************************)
(* Specification of the topic extractor: one call of extract_topics.       *)
(***************************************************************************)
TopicTexts == {Str(<<"a">>, 0), Str(<<"X", ".">>, 0), NoneVal}

InitTopics ==
    /\ pc = "call"
    /\ use_transformers = FALSE
    /\ et_texts \in SeqsUpTo(TopicTexts, MaxTexts)
    /\ et_top_n \in 0..MaxTopN
    /\ et_out = NoCall
    /\ IdleNorm /\ IdleText /\ IdleApi

ExtractTopics ==
    /\ pc = "call"
    /\ \E doc \in Docs(all_text(et_texts)) :
          et_out' = [kind |-> "return",
                     value |-> extract_topics(et_texts, et_top_n, doc),
                     topics |-> TopicList(doc)]
    /\ pc' = "extracted"
    /\ UNCHANGED <<use_transformers, raw, once, twice, at_text, at_backend, at_out,
                   et_texts, et_top_n, endpoint, env, response>>

NextTopics == ExtractTopics

SpecTopics == InitTopics /\ [][NextTopics]_vars

FirstIndex(seq, x) == CHOOSE k \in 1..Len(seq) : seq[k] = x /\ \A j \in 1..(k - 1) : seq[j] # x

\* C8: extract_topics returns at most top_n entries, none a stopword when
\* lowercased, each with count >= 1, by count descending with ties in the
\* order first encountered (noun phrases before entities); no texts, no topics.
C8_TopicsBoundedFilteredOrdered ==
    pc = "extracted" =>
        LET out == et_out.value
            seen == et_out.topics
        IN  /\ Len(out) <= et_top_n
            /\ \A k \in 1..Len(out) :
                  /\ lower(out[k].topic) \notin stopwords
                  /\ out[k].count >= 1
                  /\ out[k].count = Occurrences(seen, out[k].topic)
            /\ \A i, j \in 1..Len(out) :
                  i < j =>
                     \/ out[i].count > out[j].count
                     \/ /\ out[i].count = out[j].count
                        /\ FirstIndex(seen, out[i].topic) < FirstIndex(seen, out[j].topic)
            /\ (et_texts = <<>> => out = <<>>)

C8_Witness ==
    /\ pc = "extracted"
    /\ Len(et_out.value) = 2
    /\ et_out.value[1].count = 2
    /\ et_out.value[2].count = 1
    /\ FirstIndex(et_out.topics, et_out.value[2].topic)
          < FirstIndex(et_out.topics, et_out.value[1].topic)

(***************************************************************************)
(* analyze_posts and calculate_overall_sentiment                           *)
(***************************************************************************)
WeightTitle == 7      \* 0.7 * title_sentiment['compound']
WeightContent == 3    \* 0.3 * content_sentiment['compound']
WeightScale == 10
Threshold == 5000     \* 0.05

\* A key the item does not have
Absent == [type |-> "absent", chars |-> <<>>, val |-> 0, vader |-> 0]

\* post.get(key, '')
get(item, key) == IF item[key] = Absent THEN EmptyStr ELSE item[key]

\* The same with the two weights exchanged
weighted_swapped(title_compound, content_compound) ==
    (WeightContent * title_compound + WeightTitle * content_compound) \div WeightScale

\* 0.7 * title + 0.3 * content; the compounds are multiples of 10, so the
\* division is exact
weighted(title_compound, content_compound) ==
    (WeightTitle * title_compound + WeightContent * content_compound) \div WeightScale

\* The same with open thresholds
category_open(compound) ==
    IF compound > Threshold THEN "positive"
    ELSE IF compound < 0 - Threshold THEN "negative"
    ELSE "neutral"

\* The if / elif / else that sets sentiment_category
category(compound) ==
    IF compound >= Threshold THEN "positive"
    ELSE IF compound <= 0 - Threshold THEN "negative"
    ELSE "neutral"

\* One iteration of the loop over posts
score_post(post, use_tf, backend) ==
    LET title_sentiment == analyze_text(get(post, "title"), use_tf, backend)
        content_sentiment == analyze_text(get(post, "text"), use_tf, backend)
        compound == weighted(title_sentiment.value.compound, content_sentiment.value.compound)
    IN  IF title_sentiment.kind = "raise" THEN [kind |-> "raise", error |-> title_sentiment.error]
        ELSE IF content_sentiment.kind = "raise"
        THEN [kind |-> "raise", error |-> content_sentiment.error]
        ELSE [kind |-> "ok",
              item |-> [id |-> post.id, title |-> post.title, text |-> post.text,
                        sentiment |-> [title |-> title_sentiment.value,
                                       content |-> content_sentiment.value,
                                       compound |-> compound],
                        sentiment_category |-> category(compound)]]

Rat(n, d) == [num |-> n, den |-> d]
ZeroOverall == [compound |-> Rat(0, 1), positive |-> Rat(0, 1),
                neutral |-> Rat(0, 1), negative |-> Rat(0, 1)]

RECURSIVE SumCompound(_)
SumCompound(items) ==
    IF items = <<>> THEN 0 ELSE Head(items).sentiment.compound + SumCompound(Tail(items))

CountCategory(items, c) == Cardinality({k \in 1..Len(items) : items[k].sentiment_category = c})

\* The same, 'neutral' items left out of the total
calculate_overall_sentiment_skewed(items) ==
    IF items = <<>> THEN ZeroOverall
    ELSE LET n == Len(items) - CountCategory(items, "neutral")
             d == IF n = 0 THEN 1 ELSE n
         IN  [compound |-> Rat(SumCompound(items), d),
              positive |-> Rat(CountCategory(items, "positive"), d),
              neutral |-> Rat(CountCategory(items, "neutral"), d),
              negative |-> Rat(CountCategory(items, "negative"), d)]

calculate_overall_sentiment(items) ==
    IF items = <<>> THEN ZeroOverall
    ELSE [compound |-> Rat(SumCompound(items), Len(items)),
          positive |-> Rat(CountCategory(items, "positive"), Len(items)),
          neutral |-> Rat(CountCategory(items, "neutral"), Len(items)),
          negative |-> Rat(CountCategory(items, "negative"), Len(items))]

\* Python values a handler can return
EmptyList == [type |-> "list", items |-> <<>>]
BatchDict(items, topics, overall) ==
    [type |-> "dict", posts |-> items, topics |-> topics, overall_sentiment |-> overall]

Returned(v) == [kind |-> "return", value |-> v, error |-> ""]
Raised(e) == [kind |-> "raise", value |-> EmptyList, error |-> e]

\* all_titles + all_texts
TitlesAndTexts(posts) ==
    [k \in 1..Len(posts) |-> get(posts[k], "title")] \o [k \in 1..Len(posts) |-> get(posts[k], "text")]

\* analyze_posts(posts): nlp is what self.nlp does on the corpus, either
\* [kind |-> "raise", error |-> e] or [kind |-> "doc", doc |-> d]
analyze_posts(posts, use_tf, backend, nlp) ==
    IF posts = <<>> THEN Returned(EmptyList)
    ELSE LET scored == [k \in 1..Len(posts) |-> score_post(posts[k], use_tf, backend)]
             failed == {k \in 1..Len(posts) : scored[k].kind = "raise"}
             first == CHOOSE k \in failed : \A j \in failed : k <= j
             annotated == [k \in 1..Len(posts) |-> scored[k].item]
         IN  IF failed # {} THEN Raised(scored[first].error)
             ELSE IF nlp.kind = "raise" THEN Raised(nlp.error)
             ELSE Returned(BatchDict(annotated,
                                     extract_topics(TitlesAndTexts(posts), DefaultTopN, nlp.doc),
                                     calculate_overall_sentiment(annotated)))

(***************************************************************************)
(* API endpoints                                                           *)
(***************************************************************************)
ServerError == 500
Ok == 200

HttpError(e) == [status |-> ServerError, detail |-> e]
HttpOk(v) == [status |-> Ok, body |-> v]

\* The same, the except branch answering with an empty success
posts_endpoint_swallow(scraper, use_tf, backend, nlp) ==
    IF scraper.kind = "raise" THEN HttpOk(EmptyList)
    ELSE LET analysis == analyze_posts(scraper.items, use_tf, backend, nlp)
         IN  IF analysis.kind = "raise" THEN HttpOk(EmptyList)
             ELSE HttpOk(analysis.value)

\* The try / except of analyze_subreddit and of search_and_analyze
posts_endpoint(scraper, use_tf, backend, nlp) ==
    IF scraper.kind = "raise" THEN HttpError(scraper.error)
    ELSE LET analysis == analyze_posts(scraper.items, use_tf, backend, nlp)
         IN  IF analysis.kind = "raise" THEN HttpError(analysis.error)
             ELSE HttpOk(analysis.value)

\* One iteration of the loop over comments
score_comment(comment, use_tf, backend) ==
    LET sentiment == analyze_text(get(comment, "text"), use_tf, backend)
    IN  IF sentiment.kind = "raise" THEN [kind |-> "raise", error |-> sentiment.error]
        ELSE [kind |-> "ok",
              item |-> [id |-> comment.id, text |-> comment.text,
                        sentiment |-> sentiment.value,
                        sentiment_category |-> category(sentiment.value.compound)]]

\* The try / except of get_post_comments
comments_endpoint(scraper, use_tf, backend) ==
    IF scraper.kind = "raise" THEN HttpError(scraper.error)
    ELSE LET comments == scraper.items
             scored == [k \in 1..Len(comments) |-> score_comment(comments[k], use_tf, backend)]
             failed == {k \in 1..Len(comments) : scored[k].kind = "raise"}
             first == CHOOSE k \in failed : \A j \in failed : k <= j
             annotated == [k \in 1..Len(comments) |-> scored[k].item]
         IN  IF failed # {} THEN HttpError(scored[first].error)
             ELSE HttpOk([type |-> "dict", comments |-> annotated,
                          overall_sentiment |-> calculate_overall_sentiment(annotated)])

(***************************************************************************)
(* Specification of the service: one request to one endpoint.              *)
(***************************************************************************)
\* title and text of the posts the scraper may return
PostKinds ==
    { [title |-> Str(<<"g">>, Unit), text |-> EmptyStr],
      [title |-> Str(<<"m">>, -17500), text |-> Str(<<"a", " ", "n">>, 57500)],
      [title |-> Str(<<"w">>, 17500), text |-> Str(<<"b">>, -57500)],
      [title |-> Absent, text |-> NoneVal],
      [title |-> Str(<<"k">>, 7000), text |-> Str(<<" ">>, 0 - Unit)],
      [title |-> IntVal(5), text |-> EmptyStr] }

CommentKinds ==
    { [text |-> Str(<<"n">>, Threshold)],
      [text |-> Str(<<"b">>, 0 - Threshold)],
      [text |-> Str(<<"k">>, Threshold - 10)],
      [text |-> Str(<<"g">>, Unit)],
      [text |-> Absent],
      [text |-> IntVal(5)] }

\* Batches: the k-th item has id k
PostBatches ==
    {[k \in 1..Len(q) |-> [id |-> k, title |-> q[k].title, text |-> q[k].text]] :
        q \in SeqsUpTo(PostKinds, MaxPosts)}

CommentBatches ==
    {[k \in 1..Len(q) |-> [id |-> k, text |-> q[k].text]] : q \in SeqsUpTo(CommentKinds, MaxComments)}

ScraperError == [kind |-> "raise", items |-> <<>>, error |-> "ResponseException: received 401 HTTP response"]
Scraped(items) == [kind |-> "ok", items |-> items, error |-> ""]

\* What self.nlp does in a request: it fails, finds nothing, or reports every
\* word of the corpus as a noun chunk or as an entity
NlpOutcomes(corpus) ==
    { [kind |-> "raise", error |-> "ValueError: text exceeds nlp.max_length",
       doc |-> [noun_chunks |-> <<>>, ents |-> <<>>]],
      [kind |-> "doc", error |-> "", doc |-> [noun_chunks |-> <<>>, ents |-> <<>>]],
      [kind |-> "doc", error |-> "", doc |-> [noun_chunks |-> split(corpus), ents |-> split(corpus)]] }

\* How the secondary backend behaves during a request; it is never called
\* when use_transformers is off
BackendsInUse == IF use_transformers THEN {"ok", "raise"} ELSE {"ok"}

Init ==
    /\ pc = "idle"
    /\ use_transformers \in BOOLEAN
    /\ IdleNorm /\ IdleText /\ IdleTopics /\ IdleApi

PostsRequest(route) ==
    /\ pc = "idle"
    /\ \E scraper \in {ScraperError} \cup {Scraped(b) : b \in PostBatches} :
       \E backend \in BackendsInUse :
       \E nlp \in NlpOutcomes(all_text(TitlesAndTexts(scraper.items))) :
          /\ env' = [scraper |-> scraper, backend |-> backend, nlp |-> nlp]
          /\ response' = posts_endpoint(scraper, use_transformers, backend, nlp)
    /\ endpoint' = route
    /\ pc' = "responded"
    /\ UNCHANGED <<use_transformers, raw, once, twice, at_text, at_backend, at_out,
                   et_texts, et_top_n, et_out>>

AnalyzeSubreddit == PostsRequest("subreddit")

SearchAndAnalyze == PostsRequest("search")

GetPostComments ==
    /\ pc = "idle"
    /\ \E scraper \in {ScraperError} \cup {Scraped(b) : b \in CommentBatches} :
       \E backend \in BackendsInUse :
          /\ env' = [scraper |-> scraper, backend |-> backend,
                     nlp |-> [kind |-> "unused", error |-> "",
                              doc |-> [noun_chunks |-> <<>>, ents |-> <<>>]]]
          /\ response' = comments_endpoint(scraper, use_transformers, backend)
    /\ endpoint' = "comments"
    /\ pc' = "responded"
    /\ UNCHANGED <<use_transformers, raw, once, twice, at_text, at_backend, at_out,
                   et_texts, et_top_n, et_out>>

Next == AnalyzeSubreddit \/ SearchAndAnalyze \/ GetPostComments

Spec == Init /\ [][Next]_vars

PostsRoute == endpoint \in {"subreddit", "search"}

Categories == {"positive", "neutral", "negative"}

\* A request that was answered with a batch result
Answered == pc = "responded" /\ response.status = Ok /\ response.body.type = "dict"

\* The annotated items of the answer
Items == IF endpoint = "comments" THEN response.body.comments ELSE response.body.posts

RatEq(a, b) == a.num * b.den = b.num * a.den
RatAdd(a, b) == Rat(a.num * b.den + b.num * a.den, a.den * b.den)

\* C1: analyze_posts on an empty batch returns the full batch result with no
\* items, no topics and an all-zero overall_sentiment.
C1_EmptyBatchFullResult ==
    (pc = "responded" /\ PostsRoute /\ env.scraper.kind = "ok" /\ env.scraper.items = <<>>) =>
        /\ response.status = Ok
        /\ response.body.type = "dict"
        /\ response.body.posts = <<>>
        /\ response.body.topics = <<>>
        /\ response.body.overall_sentiment = ZeroOverall

\* C2: every annotated post or comment has exactly one category, fixed by its
\* compound with closed thresholds: positive iff compound >= 0.05, negative
\* iff compound <= -0.05, neutral otherwise.
C2_ClosedThresholds ==
    Answered =>
        \A k \in 1..Len(Items) :
            LET c == Items[k].sentiment.compound
                cat == Items[k].sentiment_category
            IN  /\ cat \in Categories
                /\ (cat = "positive") <=> (c >= Threshold)
                /\ (cat = "negative") <=> (c <= 0 - Threshold)
                /\ (cat = "neutral") <=> (c > 0 - Threshold /\ c < Threshold)

C2_Witness ==
    /\ Answered /\ PostsRoute
    /\ \E k \in 1..Len(Items) :
          Items[k].sentiment.compound = Threshold /\ Items[k].sentiment_category = "positive"
    /\ \E k \in 1..Len(Items) :
          Items[k].sentiment.compound = 0 - Threshold /\ Items[k].sentiment_category = "negative"
    /\ \E k \in 1..Len(Items) :
          Items[k].sentiment.compound = 0 /\ Items[k].sentiment_category = "neutral"

\* C3: a post's compound is 0.7 of its title's compound plus 0.3 of its
\* body's, title and body scored independently by analyze_text, an absent one
\* as the empty string; the result lies in [-1, 1].
C3_WeightedCompound ==
    (Answered /\ PostsRoute) =>
        \A k \in 1..Len(Items) :
            LET item == Items[k]
                title == IF item.title = Absent THEN EmptyStr ELSE item.title
                text == IF item.text = Absent THEN EmptyStr ELSE item.text
            IN  /\ item.sentiment.title = analyze_text(title, use_transformers, env.backend).value
                /\ item.sentiment.content = analyze_text(text, use_transformers, env.backend).value
                /\ (item.title = Absent => item.sentiment.title.compound = 0)
                /\ WeightScale * item.sentiment.compound =
                       WeightTitle * item.sentiment.title.compound
                           + WeightContent * item.sentiment.content.compound
                /\ item.sentiment.compound >= 0 - Unit
                /\ item.sentiment.compound <= Unit

C3_Witness ==
    /\ Answered /\ PostsRoute
    /\ \E k \in 1..Len(Items) :
          /\ Items[k].sentiment.title.compound = Unit
          /\ Items[k].sentiment.content.compound = 0
          /\ Items[k].sentiment.compound = 70000
    /\ \E k \in 1..Len(Items) :
          /\ Items[k].title = Absent
          /\ Items[k].sentiment.compound = 0

C9_ItemsInInputOrder ==
    (pc = "responded" /\ PostsRoute /\ env.scraper.kind = "ok" /\ response.status = Ok) =>
        /\ response.body.type = "dict"
        /\ Len(response.body.posts) = Len(env.scraper.items)
        /\ \A k \in 1..Len(env.scraper.items) :
              /\ response.body.posts[k].id = env.scraper.items[k].id
              /\ response.body.posts[k].title = env.scraper.items[k].title
              /\ response.body.posts[k].text = env.scraper.items[k].text
              /\ response.body.posts[k].sentiment_category \in Categories

\* Scoring item k of the batch raises
ScoringRaises(k) ==
    \/ analyze_text(get(env.scraper.items[k], "title"), use_transformers, env.backend).kind = "raise"
    \/ analyze_text(get(env.scraper.items[k], "text"), use_transformers, env.backend).kind = "raise"

\* C10: if scoring an item or the topic extraction raises during
\* analyze_posts, no batch result is returned and the endpoint answers 500
\* with the error message as detail.
C10_FailureFailsBatch ==
    (pc = "responded" /\ PostsRoute /\ env.scraper.kind = "ok" /\ env.scraper.items # <<>>
        /\ ((\E k \in 1..Len(env.scraper.items) : ScoringRaises(k)) \/ env.nlp.kind = "raise")) =>
        /\ response.status = ServerError
        /\ DOMAIN response = {"status", "detail"}
        /\ response.detail =
              IF \E k \in 1..Len(env.scraper.items) : ScoringRaises(k)
              THEN "AttributeError: 'int' object has no attribute 'strip'"
              ELSE env.nlp.error

C10_Witness ==
    /\ pc = "responded" /\ PostsRoute /\ env.scraper.kind = "ok"
    /\ Len(env.scraper.items) = 3
    /\ ~ScoringRaises(1) /\ ScoringRaises(2) /\ ~ScoringRaises(3)
    /\ env.nlp.kind = "doc"
    /\ response.status = ServerError
    /\ response.detail = "AttributeError: 'int' object has no attribute 'strip'"

====
